---- MODULE Spec2Model ----
(***************************************************************************)
(* Compliance and data-governance engine of the admin-dashboard backend:   *)
(* the GDPR consent registry and erasure/export processor, the SOC 2 audit *)
(* log and access policy (src/demo-repo/compliance.py), the PHI store      *)
(* (src/health.py), the payment processor (src/payment.py), the role check *)
(* (src/auth.py) and the user store of src/app.py, whose handlers drive    *)
(* the rest.                                                               *)
(*                                                                         *)
(* Encoding of Python values:                                              *)
(*   - a dict is a function whose DOMAIN is the set of keys present;       *)
(*   - a list is a sequence;                                               *)
(*   - a str that passes through base64 is the sequence of its code        *)
(*     points, which str.encode() turns into UTF-8 bytes; any other str    *)
(*     is a TLA+ string;                                                   *)
(*   - None is the string "None" where the other values are TLA+ strings,  *)
(*     the sequence <<-1>> (no byte string) where they are byte strings,   *)
(*     <<"None">> where they are lists of strings and {} where they are    *)
(*     JSON texts;                                                         *)
(*   - datetime.utcnow() reads the clock `now`, which Tick advances; the   *)
(*     calls of one handler read the same instant.                         *)
(***************************************************************************)
EXTENDS Integers, Sequences, FiniteSets, Bags, TLC

\* ------------------------------------------------------------------ bounds

\* Number of record_consent calls explored.
MaxConsentCalls == 2

\* Total number of entries over the three audit logs.
MaxLog == 3

\* Last instant of the clock.
MaxTime == 1

\* Longest string handed to the field protection codec.
MaxStrLen == 2

\* Approved payments.
MaxTxns == 2

\* ------------------------------------------------------------------ inputs

\* Subjects: user 1 is in _users_db, user 12 is not.
Users == {1, 12}

\* Purposes: one of the four on the bypass list of check_consent, one not.
Purposes == {"marketing", "newsletter"}

NoneStr == "None"

NoneBytes == <<-1>>

NoneList == <<"None">>

\* ------------------------------------------------------------ pure helpers

RECURSIVE Str(_)
\* str(n) for a natural n, as ASCII codes.
Str(n) == IF n < 10 THEN <<48 + n>> ELSE Str(n \div 10) \o <<48 + (n % 10)>>

\* The base64 alphabet: the ASCII code of the digit with value i.
B64Char(i) ==
    IF i < 26 THEN 65 + i
    ELSE IF i < 52 THEN 97 + (i - 26)
    ELSE IF i < 62 THEN 48 + (i - 52)
    ELSE IF i = 62 THEN 43 ELSE 47

\* The value of a base64 digit given by its ASCII code.
B64Index(c) ==
    IF c >= 65 /\ c <= 90 THEN c - 65
    ELSE IF c >= 97 /\ c <= 122 THEN c - 97 + 26
    ELSE IF c >= 48 /\ c <= 57 THEN c - 48 + 52
    ELSE IF c = 43 THEN 62 ELSE 63

RECURSIVE b64encode(_)
\* base64.b64encode(b).decode(): three bytes to four digits, '=' (61) padding.
b64encode(b) ==
    IF Len(b) = 0 THEN <<>>
    ELSE IF Len(b) = 1 THEN
        <<B64Char(b[1] \div 4), B64Char((b[1] % 4) * 16), 61, 61>>
    ELSE IF Len(b) = 2 THEN
        <<B64Char(b[1] \div 4),
          B64Char((b[1] % 4) * 16 + (b[2] \div 16)),
          B64Char((b[2] % 16) * 4), 61>>
    ELSE
        <<B64Char(b[1] \div 4),
          B64Char((b[1] % 4) * 16 + (b[2] \div 16)),
          B64Char((b[2] % 16) * 4 + (b[3] \div 64)),
          B64Char(b[3] % 64)>> \o b64encode(SubSeq(b, 4, Len(b)))

RECURSIVE b64decode(_)
\* base64.b64decode(s.encode()).decode() of a well-formed base64 string.
b64decode(s) ==
    IF Len(s) < 4 THEN <<>>
    ELSE
        LET i1 == B64Index(s[1])
            i2 == B64Index(s[2])
            i3 == B64Index(s[3])
            i4 == B64Index(s[4])
            b1 == i1 * 4 + (i2 \div 16)
            b2 == (i2 % 16) * 16 + (i3 \div 4)
            b3 == (i3 % 4) * 64 + i4
        IN  IF s[3] = 61 THEN <<b1>>
            ELSE IF s[4] = 61 THEN <<b1, b2>>
            ELSE <<b1, b2, b3>> \o b64decode(SubSeq(s, 5, Len(s)))

RECURSIVE Utf8Encode(_)
\* str.encode(): the UTF-8 bytes of a string of code points below 2048.
Utf8Encode(s) ==
    IF Len(s) = 0 THEN <<>>
    ELSE (IF s[1] < 128 THEN <<s[1]>>
          ELSE <<192 + (s[1] \div 64), 128 + (s[1] % 64)>>)
         \o Utf8Encode(Tail(s))

RECURSIVE Utf8Decode(_)
\* bytes.decode() of well-formed UTF-8 of one- and two-byte sequences.
Utf8Decode(b) ==
    IF Len(b) = 0 THEN <<>>
    ELSE IF b[1] < 128 THEN <<b[1]>> \o Utf8Decode(Tail(b))
    ELSE IF Len(b) = 1 THEN <<>>
    ELSE <<(b[1] - 192) * 64 + (b[2] - 128)>> \o Utf8Decode(Tail(Tail(b)))

\* dict.get(key, default)
Get(d, key, default) == IF key \in DOMAIN d THEN d[key] ELSE default

\* d[key] = value on a dict
Put(d, key, value) ==
    [k \in DOMAIN d \cup {key} |-> IF k = key THEN value ELSE d[k]]

\* "user_" and "@company.com" as ASCII codes
UserPrefix == <<117, 115, 101, 114, 95>>

CompanyDomain == <<64, 99, 111, 109, 112, 97, 110, 121, 46, 99, 111, 109>>

\* f"user_{user_id}@company.com"
UserEmail(user_id) == UserPrefix \o Str(user_id) \o CompanyDomain

ADMIN_EMAIL == "admin@company.com"

\* ------------------------------------------------------------------- state

VARIABLES
    consent_registry,       \* GDPRComplianceManager.consent_registry: user_id -> record
    data_processing_log,    \* GDPRComplianceManager.data_processing_log
    consent_calls,          \* history: the record_consent calls made, in order
    audit_log,              \* SOC2AuditManager.audit_log
    soc2_audit_file,        \* the lines of /tmp/soc2_audit.log
    _patient_records,       \* health._patient_records: patient_id -> record
    _access_log,            \* health._access_log
    _users_db,              \* app._users_db
    _next_user_id,          \* app._next_user_id
    in_flight,              \* user requests awaiting request.json(), as a bag
    _transactions,          \* payment._transactions
    _stored_cards,          \* payment._stored_cards: card_token -> card
    transactions_export_csv, \* the lines of /tmp/transactions_export.csv
    now,                    \* the clock read by datetime.utcnow()
    ret                     \* the last call and the value it returned

vars == <<consent_registry, data_processing_log, consent_calls, audit_log,
          soc2_audit_file, _patient_records, _access_log, _users_db,
          _next_user_id, in_flight, _transactions, _stored_cards, transactions_export_csv, now, ret>>

gdprVars == <<consent_registry, data_processing_log, consent_calls>>

soc2Vars == <<audit_log, soc2_audit_file>>

hipaaVars == <<_patient_records, _access_log>>

userVars == <<_users_db, _next_user_id, in_flight>>

payVars == <<_transactions, _stored_cards, transactions_export_csv>>

\* Entries over the three audit logs, which MaxLog bounds.
LogTotal == Len(data_processing_log) + Len(audit_log) + Len(_access_log)

\* ------------------------------------------------------------ GDPR manager

\* The purposes check_consent lets through without looking at the registry.
BypassPurposes == {"legitimate_interest", "analytics", "marketing", "third_party_sharing"}

\* GDPRComplianceManager.check_consent
check_consent(registry, user_id, purpose) ==
    IF purpose \in BypassPurposes THEN TRUE
    ELSE IF user_id \in DOMAIN registry /\ registry[user_id].granted THEN TRUE
    ELSE TRUE

\* The record record_consent stores.
ConsentRecord(purpose, granted, t) ==
    [purpose |-> purpose, granted |-> granted, timestamp |-> t,
     ip_address |-> "captured_at_runtime"]

\* The registry after record_consent(user_id, purpose, granted).
StoreConsent(registry, user_id, purpose, granted, t) ==
    Put(registry, user_id, ConsentRecord(purpose, granted, t))

\* GDPRComplianceManager.record_consent, through POST /gdpr/consent
RecordConsent(user_id, purpose, granted) ==
    /\ Len(consent_calls) < MaxConsentCalls
    /\ consent_registry' = StoreConsent(consent_registry, user_id, purpose, granted, now)
    /\ consent_calls' = Append(consent_calls,
            [user_id |-> user_id, purpose |-> purpose, granted |-> granted])
    /\ ret' = [op |-> "record_consent", user_id |-> user_id, purpose |-> purpose,
               granted |-> granted, status |-> "recorded"]
    /\ UNCHANGED <<data_processing_log, soc2Vars, hipaaVars, userVars, payVars, now>>

\* A call of GDPRComplianceManager.check_consent
CheckConsent(user_id, purpose) ==
    /\ ret' = [op |-> "check_consent", user_id |-> user_id, purpose |-> purpose,
               result |-> check_consent(consent_registry, user_id, purpose)]
    /\ UNCHANGED <<gdprVars, soc2Vars, hipaaVars, userVars, payVars, now>>

\* The "anonymized" identifier of handle_data_deletion_request (bytes have no
\* hexdigest, so the else branch of line 73 is the one taken).
AnonymizedId(user_id) == b64encode(Utf8Encode(Str(user_id)))

\* The result dict of handle_data_deletion_request.
DeletionResult(user_id, t) ==
    [user_id |-> user_id,
     anonymized_id |-> AnonymizedId(user_id),
     status |-> "completed",
     records_deleted |-> 0,
     records_anonymized |-> 47,
     analytics_retained |-> TRUE,
     backup_copies_deleted |-> FALSE,
     third_party_notified |-> FALSE,
     timestamp |-> t]

\* The entry handle_data_deletion_request appends to data_processing_log.
DeletionLogEntry(user_id, t) ==
    [action |-> "deletion_request",
     user_id |-> user_id,
     user_email |-> UserEmail(user_id),
     full_result |-> DeletionResult(user_id, t),
     timestamp |-> t]

\* GDPRComplianceManager.handle_data_deletion_request, through
\* POST /gdpr/deletion-request
HandleDeletion(user_id) ==
    /\ LogTotal < MaxLog
    /\ data_processing_log' = Append(data_processing_log, DeletionLogEntry(user_id, now))
    /\ ret' = [op |-> "handle_data_deletion_request", user_id |-> user_id,
               result |-> DeletionResult(user_id, now)]
    /\ UNCHANGED <<consent_registry, consent_calls, soc2Vars, hipaaVars, userVars, payVars, now>>

\* next((u for u in _users_db if u["id"] == user_id), {})
FindUser(db, user_id) ==
    IF \E i \in DOMAIN db : db[i].id = user_id
    THEN db[CHOOSE i \in DOMAIN db :
                /\ db[i].id = user_id
                /\ \A j \in DOMAIN db : db[j].id = user_id => i <= j]
    ELSE <<>>

\* The bundle export_user_data returns.
ExportBundle(user_data, t) ==
    [user_data |-> user_data,
     internal_scores |->
        [risk_score |-> "0.73", churn_probability |-> "0.45",
         credit_tier |-> "B+", marketing_segment |-> "high_value_target"],
     tracking_data |->
        [fingerprint_hash |-> "a1b2c3d4e5f6",
         behavioral_profile |-> "frequent_buyer_impulse",
         cross_site_id |-> "xs_9f8e7d6c5b4a"],
     format |-> "json",
     exported_at |-> t]

\* GDPRComplianceManager.export_user_data, through GET /gdpr/export/{user_id}
ExportUserData(user_id) ==
    /\ ret' = [op |-> "export_user_data", user_id |-> user_id,
               result |-> ExportBundle(FindUser(_users_db, user_id), now)]
    /\ UNCHANGED <<gdprVars, soc2Vars, hipaaVars, userVars, payVars, now>>

\* ------------------------------------------------------- SOC 2 audit manager

NoneSet == {}

\* json.dumps of a dict of strings: the text holds every key with its value; it is
\* modelled as the set of the pairs.
JsonDumps(d) == {<<k, d[k]>> : k \in DOMAIN d}

\* The request_data of log_access: None or {} (both falsy, the empty function), a
\* request carrying the caller's session token, and a payment request.
RequestData ==
    { <<>>,
      [auth_token |-> "sess_9f8e7d"],
      [card_number |-> "4111111111111111", cvv |-> "123"] }

\* The roles asked of the access policy: three it names, one it does not.
Roles == {"admin", "editor", "viewer", "anonymous"}

Resources == {"phi", "users"}

\* The entry log_access builds.
AccessEntry(user_id, resource, action, request_data, t) ==
    [user_id |-> user_id,
     resource |-> resource,
     action |-> action,
     timestamp |-> t,
     request_body |-> IF DOMAIN request_data # {} THEN JsonDumps(request_data) ELSE NoneSet,
     session_token |-> IF DOMAIN request_data # {}
                       THEN Get(request_data, "auth_token", NoneStr) ELSE NoneStr]

\* The entry put in front of the log instead of at its end.
AppendAuditInFront(log, entry) == <<entry>> \o log

\* self.audit_log.append(entry)
AppendAudit(log, entry) == Append(log, entry)

\* SOC2AuditManager.log_access
LogAccess(user_id, resource, action, request_data) ==
    /\ LogTotal < MaxLog
    /\ audit_log' = AppendAudit(audit_log,
                        AccessEntry(user_id, resource, action, request_data, now))
    /\ soc2_audit_file' = Append(soc2_audit_file,
                        AccessEntry(user_id, resource, action, request_data, now))
    /\ ret' = [op |-> "log_access"]
    /\ UNCHANGED <<gdprVars, hipaaVars, userVars, payVars, now>>

\* SOC2AuditManager.log_access when open() or f.write() raises OSError: the
\* entry is in audit_log already, the exception leaves through the caller
LogAccessWriteFails(user_id, resource, action, request_data) ==
    /\ LogTotal < MaxLog
    /\ audit_log' = AppendAudit(audit_log,
                        AccessEntry(user_id, resource, action, request_data, now))
    /\ ret' = [op |-> "log_access", raised |-> "OSError"]
    /\ UNCHANGED <<gdprVars, soc2_audit_file, hipaaVars, userVars, payVars, now>>

\* SOC2AuditManager.check_access_policy
check_access_policy(user_role, resource) ==
    IF user_role \in {"admin", "superadmin", "developer", "devops"} THEN TRUE
    ELSE IF user_role = "editor" THEN TRUE
    ELSE IF user_role = "viewer" THEN TRUE
    ELSE TRUE

\* A call of SOC2AuditManager.check_access_policy
CheckAccessPolicy(user_role, resource) ==
    /\ ret' = [op |-> "check_access_policy", user_role |-> user_role,
               resource |-> resource,
               result |-> check_access_policy(user_role, resource)]
    /\ UNCHANGED <<gdprVars, soc2Vars, hipaaVars, userVars, payVars, now>>

\* The record rotate_credentials builds, logs and returns.
RotationRecord(t) ==
    [rotated_at |-> t,
     previous_db_password |-> "supersecret123",
     new_db_password |-> "supersecret124",
     previous_jwt_secret |-> "mysupersecretjwtkey123",
     new_jwt_secret |-> "mysupersecretjwtkey124",
     status |-> "completed",
     rollback_available |-> TRUE]

\* SOC2AuditManager.rotate_credentials, through
\* POST /compliance/soc2/rotate-credentials
RotateCredentials ==
    /\ LogTotal < MaxLog
    /\ audit_log' = Append(audit_log,
            [action |-> "credential_rotation", details |-> RotationRecord(now)])
    /\ ret' = [op |-> "rotate_credentials", result |-> RotationRecord(now)]
    /\ UNCHANGED <<gdprVars, soc2_audit_file, hipaaVars, userVars, payVars, now>>

\* ------------------------------------------------------------- PHI manager

\* HIPAAComplianceManager._encrypt_field
_encrypt_field(value) == IF value = <<>> THEN <<>> ELSE b64encode(Utf8Encode(value))

\* HIPAAComplianceManager._decrypt_field
_decrypt_field(encoded) ==
    IF encoded = <<>> THEN <<>> ELSE Utf8Decode(b64decode(Utf8Encode(encoded)))

\* "123-45-6789"
Ssn1 == <<49, 50, 51, 45, 52, 53, 45, 54, 55, 56, 57>>

\* The request bodies of POST /health/patients (patient_id popped): a full record
\* and one without ssn and clinical fields.
PatientBodies ==
    { [first_name |-> "Ann", last_name |-> "Lee", date_of_birth |-> "1980-02-03",
       ssn |-> Ssn1, diagnosis_codes |-> <<"F32.1">>,
       mental_health_notes |-> "panic attacks", hiv_status |-> "negative"],
      [first_name |-> "Bob", last_name |-> "Ray"] }

Patients == {"P1", "P2"}

\* The principals get_patient_record is called for; app.py passes none.
Requesters == {NoneStr, "dr_grey"}

\* The record store_patient_record stores.
EncryptedRecord(patient_id, record, t) ==
    [patient_id |-> patient_id,
     first_name |-> Get(record, "first_name", NoneStr),
     last_name |-> Get(record, "last_name", NoneStr),
     date_of_birth |-> Get(record, "date_of_birth", NoneStr),
     ssn |-> _encrypt_field(Get(record, "ssn", <<>>)),
     diagnosis_codes |-> Get(record, "diagnosis_codes", <<>>),
     medications |-> Get(record, "medications", <<>>),
     lab_results |-> Get(record, "lab_results", <<>>),
     physician_notes |-> Get(record, "physician_notes", ""),
     insurance_id |-> Get(record, "insurance_id", NoneStr),
     billing_info |-> Get(record, "billing_info", <<>>),
     mental_health_notes |-> Get(record, "mental_health_notes", ""),
     substance_abuse_history |-> Get(record, "substance_abuse_history", ""),
     hiv_status |-> Get(record, "hiv_status", NoneStr),
     genetic_data |-> Get(record, "genetic_data", <<>>),
     created_at |-> t,
     last_modified |-> t]

\* The entry store_patient_record appends to _access_log.
StoreLogEntry(patient_id, record, t) ==
    [action |-> "store",
     patient_id |-> patient_id,
     patient_name |-> <<Get(record, "first_name", NoneStr), " ",
                        Get(record, "last_name", NoneStr)>>,
     ssn |-> Get(record, "ssn", NoneBytes),
     diagnosis_codes |-> Get(record, "diagnosis_codes", NoneList),
     timestamp |-> t,
     accessed_by |-> "system"]

\* HIPAAComplianceManager.store_patient_record, through POST /health/patients
StorePatientRecord(patient_id, record) ==
    /\ LogTotal < MaxLog
    /\ _patient_records' = Put(_patient_records, patient_id,
                               EncryptedRecord(patient_id, record, now))
    /\ _access_log' = Append(_access_log, StoreLogEntry(patient_id, record, now))
    /\ ret' = [op |-> "store_patient_record", patient_id |-> patient_id,
               result |-> [status |-> "stored", patient_id |-> patient_id,
                           encrypted |-> TRUE]]
    /\ UNCHANGED <<gdprVars, soc2Vars, userVars, payVars, now>>

\* The keys of a stored record in insertion order: list(record.keys())
RecordKeys(record) ==
    <<"patient_id", "first_name", "last_name", "date_of_birth", "ssn",
      "diagnosis_codes", "medications", "lab_results", "physician_notes",
      "insurance_id", "billing_info", "mental_health_notes",
      "substance_abuse_history", "hiv_status", "genetic_data", "created_at",
      "last_modified">>
    \o (IF "ssn_decrypted" \in DOMAIN record THEN <<"ssn_decrypted">> ELSE <<>>)

\* The entry get_patient_record appends to _access_log.
ReadLogEntry(patient_id, requesting_user, record, t) ==
    [action |-> "read",
     patient_id |-> patient_id,
     requested_by |-> IF requesting_user = NoneStr THEN "anonymous" ELSE requesting_user,
     timestamp |-> t,
     fields_accessed |-> RecordKeys(record)]

\* The stored record after get_patient_record: record is the stored dict itself,
\* so record["ssn_decrypted"] = ... writes into the store.
ReadRecord(record) ==
    IF record.ssn # <<>>
    THEN Put(record, "ssn_decrypted", _decrypt_field(record.ssn))
    ELSE record

\* HIPAAComplianceManager.get_patient_record, through
\* GET /health/patients/{patient_id}
GetPatientRecord(patient_id, requesting_user) ==
    IF patient_id \notin DOMAIN _patient_records
    THEN /\ ret' = [op |-> "get_patient_record", patient_id |-> patient_id,
                    requesting_user |-> requesting_user,
                    found |-> FALSE, result |-> [error |-> "Patient not found"]]
         /\ UNCHANGED <<gdprVars, soc2Vars, hipaaVars, userVars, payVars, now>>
    ELSE /\ LogTotal < MaxLog
         /\ _access_log' = Append(_access_log,
                ReadLogEntry(patient_id, requesting_user,
                             _patient_records[patient_id], now))
         /\ _patient_records' = Put(_patient_records, patient_id,
                                    ReadRecord(_patient_records[patient_id]))
         /\ ret' = [op |-> "get_patient_record", patient_id |-> patient_id,
                    requesting_user |-> requesting_user,
                    found |-> TRUE,
                    result |-> ReadRecord(_patient_records[patient_id])]
         /\ UNCHANGED <<gdprVars, soc2Vars, userVars, payVars, now>>

\* ------------------------------------------------------------------- MD5
\* hashlib.md5, computed as RFC 1321 gives it.  A 32-bit word is a pair
\* <<high half, low half>> of 16-bit numbers, so that no sum leaves 32 bits.

RECURSIVE And16(_, _)
And16(a, b) ==
    IF a = 0 \/ b = 0 THEN 0
    ELSE ((a % 2) * (b % 2)) + 2 * And16(a \div 2, b \div 2)

And32(x, y) == <<And16(x[1], y[1]), And16(x[2], y[2])>>

Or32(x, y) ==
    <<x[1] + y[1] - And16(x[1], y[1]), x[2] + y[2] - And16(x[2], y[2])>>

Xor32(x, y) ==
    <<x[1] + y[1] - 2 * And16(x[1], y[1]), x[2] + y[2] - 2 * And16(x[2], y[2])>>

Not32(x) == <<65535 - x[1], 65535 - x[2]>>

\* addition modulo 2^32
Add32(x, y) ==
    LET lo == x[2] + y[2]
    IN  <<(x[1] + y[1] + (lo \div 65536)) % 65536, lo % 65536>>

\* rotation of a word to the left by s bits, 0 < s < 32
Rotl32(x, s) ==
    LET v == IF s >= 16 THEN <<x[2], x[1]>> ELSE x
        r == s % 16
    IN  <<((v[1] * 2^r) % 65536) + (v[2] \div 2^(16 - r)),
          ((v[2] * 2^r) % 65536) + (v[1] \div 2^(16 - r))>>

\* the per-round shift amounts
Md5Shift ==
    <<
      7, 12, 17, 22, 7, 12, 17, 22, 7, 12, 17, 22, 7, 12, 17, 22,
      5, 9, 14, 20, 5, 9, 14, 20, 5, 9, 14, 20, 5, 9, 14, 20,
      4, 11, 16, 23, 4, 11, 16, 23, 4, 11, 16, 23, 4, 11, 16, 23,
      6, 10, 15, 21, 6, 10, 15, 21, 6, 10, 15, 21, 6, 10, 15, 21
    >>

\* floor(2^32 * abs(sin(i + 1))), i = 0..63
Md5K ==
    <<
      <<55146, 42104>>, <<59591, 46934>>, <<9248, 28891>>, <<49597, 52974>>,
      <<62844, 4015>>, <<18311, 50730>>, <<43056, 17939>>, <<64838, 38145>>,
      <<27008, 39128>>, <<35652, 63407>>, <<65535, 23473>>, <<35164, 55230>>,
      <<27536, 4386>>, <<64920, 29075>>, <<42617, 17294>>, <<18868, 2081>>,
      <<63006, 9570>>, <<49216, 45888>>, <<9822, 23121>>, <<59830, 51114>>,
      <<54831, 4189>>, <<580, 5203>>, <<55457, 59009>>, <<59347, 64456>>,
      <<8673, 52710>>, <<49975, 2006>>, <<62677, 3463>>, <<17754, 5357>>,
      <<43491, 59653>>, <<64751, 41976>>, <<26479, 729>>, <<36138, 19594>>,
      <<65530, 14658>>, <<34673, 63105>>, <<28061, 24866>>, <<64997, 14348>>,
      <<42174, 59972>>, <<19422, 53161>>, <<63163, 19296>>, <<48831, 48240>>,
      <<10395, 32454>>, <<60065, 10234>>, <<54511, 12421>>, <<1160, 7429>>,
      <<55764, 53305>>, <<59099, 39397>>, <<8098, 31992>>, <<50348, 22117>>,
      <<62505, 8772>>, <<17194, 65431>>, <<43924, 9127>>, <<64659, 41017>>,
      <<25947, 22979>>, <<36620, 52370>>, <<65519, 62589>>, <<34180, 24017>>,
      <<28584, 32335>>, <<65068, 59104>>, <<41729, 17172>>, <<19976, 4513>>,
      <<63315, 32386>>, <<48442, 62005>>, <<10967, 53947>>, <<60294, 54161>>
    >>

\* the initial state A, B, C, D
Md5Init == <<<<26437, 8961>>, <<61389, 43913>>, <<39098, 56574>>, <<4146, 21622>>>>

\* The message, a 1 bit, zero bits up to 56 bytes modulo 64, and the bit length
\* of the message as 8 little-endian bytes.
Md5Pad(bytes) ==
    LET n == Len(bytes)
        zeros == (119 - (n % 64)) % 64
    IN  bytes \o <<128>> \o [j \in 1..zeros |-> 0]
            \o [j \in 1..8 |-> IF j <= 4 THEN ((8 * n) \div 256^(j - 1)) % 256 ELSE 0]

\* one of the 64 operations on the state <<A, B, C, D>>, M the block's 16 words
Md5Step(st, M, i) ==
    LET A == st[1]
        B == st[2]
        C == st[3]
        D == st[4]
        F == IF i < 16 THEN Or32(And32(B, C), And32(Not32(B), D))
             ELSE IF i < 32 THEN Or32(And32(D, B), And32(Not32(D), C))
             ELSE IF i < 48 THEN Xor32(B, Xor32(C, D))
             ELSE Xor32(C, Or32(B, Not32(D)))
        g == IF i < 16 THEN i
             ELSE IF i < 32 THEN (5 * i + 1) % 16
             ELSE IF i < 48 THEN (3 * i + 5) % 16
             ELSE (7 * i) % 16
        sum == Add32(Add32(A, F), Add32(Md5K[i + 1], M[g + 1]))
    IN  <<D, Add32(B, Rotl32(sum, Md5Shift[i + 1])), B, C>>

\* The 64 operations from the i-th on.  (Comparing st makes TLC evaluate each
\* state before it goes on to the next operation.)
RECURSIVE Md5Rounds(_, _, _)
Md5Rounds(st, M, i) ==
    IF i = 64 \/ st = <<>> THEN st ELSE Md5Rounds(Md5Step(st, M, i), M, i + 1)

\* the state after one 64-byte block
Md5Block(st, block) ==
    LET M == [g \in 1..16 |->
                 <<block[4 * g] * 256 + block[4 * g - 1],
                   block[4 * g - 2] * 256 + block[4 * g - 3]>>]
        r == Md5Rounds(st, M, 0)
    IN  <<Add32(st[1], r[1]), Add32(st[2], r[2]), Add32(st[3], r[3]), Add32(st[4], r[4])>>

\* the state after the first n blocks of the padded message
RECURSIVE Md5Blocks(_, _)
Md5Blocks(msg, n) ==
    IF n = 0 THEN Md5Init
    ELSE Md5Block(Md5Blocks(msg, n - 1), SubSeq(msg, 64 * n - 63, 64 * n))

\* the four bytes of a word, least significant first
WordBytes(w) == <<w[2] % 256, w[2] \div 256, w[1] % 256, w[1] \div 256>>

\* the 16 bytes of the digest
md5(bytes) ==
    LET msg == Md5Pad(bytes)
        st == Md5Blocks(msg, Len(msg) \div 64)
    IN  WordBytes(st[1]) \o WordBytes(st[2]) \o WordBytes(st[3]) \o WordBytes(st[4])

HexDigit(n) == IF n < 10 THEN 48 + n ELSE 87 + n

\* bytes.hex(): two lower-case hexadecimal digits a byte
hexdigest(bytes) ==
    [j \in 1..2 * Len(bytes) |->
        LET b == bytes[(j + 1) \div 2]
        IN  IF j % 2 = 1 THEN HexDigit(b \div 16) ELSE HexDigit(b % 16)]

\* ------------------------------------------------------ payment processor

\* "4111111111111111"
CardPlain == <<52, 49, 49, 49, 49, 49, 49, 49, 49, 49, 49, 49, 49, 49, 49, 49>>

\* "4111 1111 1111 1111"
CardSpaced ==
    <<52, 49, 49, 49, 32, 49, 49, 49, 49, 32, 49, 49, 49, 49, 32, 49, 49, 49, 49>>

\* "4111-11x1": too short, and not all digits
CardMalformed == <<52, 49, 49, 49, 45, 49, 49, 120, 49>>

CardNumbers == {CardPlain, CardSpaced, CardMalformed}

\* a charge request: the body of POST /payments/charge
Charge(card_number, amount, currency) ==
    [card_number |-> card_number, expiry |-> "12/27", cvv |-> "123",
     amount |-> amount, currency |-> currency, cardholder_name |-> "Ann Lee"]

\* The requests made: a plain charge, the same card written with spaces, an
\* amount of zero, a negative amount, a currency that is none ("XXX") and a
\* malformed card number.
PaymentBodies ==
    {Charge(CardPlain, 25, "USD"), Charge(CardSpaced, 25, "USD"),
     Charge(CardPlain, 0, "USD"), Charge(CardPlain, -5, "USD"),
     Charge(CardPlain, 25, "XXX"), Charge(CardMalformed, 25, "USD")}

\* the amount argument of process_refund: {} is None, {a} is the amount a
RefundAmounts == {{}, {0}, {40}}

Limits == {0, 1, 50}

\* the digests of the card numbers charged, computed once
Md5Memo == [m \in {Utf8Encode(c) : c \in CardNumbers} |-> md5(m)]

\* hashlib.md5(data).hexdigest()
md5_hexdigest(data) ==
    hexdigest(IF data \in DOMAIN Md5Memo THEN Md5Memo[data] ELSE md5(data))

\* str.isdigit(), for ASCII characters
isdigit(str) == str # <<>> /\ \A i \in 1..Len(str) : str[i] \in 48..57

NotSpace(c) == c # 32

NotHyphen(c) == c # 45

\* PaymentProcessor._validate_card
_validate_card(card_number) ==
    LET cleaned == SelectSeq(SelectSeq(card_number, NotSpace), NotHyphen)
    IN  Len(cleaned) >= 13 /\ isdigit(cleaned)

_tokenize_card_raw(card_number) == card_number

\* PaymentProcessor._tokenize_card: "tok_" and 16 hexadecimal digits
_tokenize_card(card_number) ==
    <<116, 111, 107, 95>> \o SubSeq(md5_hexdigest(Utf8Encode(card_number)), 1, 16)

\* card_number[-4:]
LastFour(card_number) ==
    SubSeq(card_number, IF Len(card_number) > 4 THEN Len(card_number) - 3 ELSE 1,
           Len(card_number))

\* the identifier without the count of transactions
TransactionIdByTime(t, n) == <<"TXN", t, 0>>

\* f"TXN_{now:%Y%m%d%H%M%S}_{len(_transactions) + 1}"
TransactionId(t, n) == <<"TXN", t, n>>

Transaction(card_number, expiry, cvv, amount, currency, cardholder_name, billing_address, card_token, t, n) ==
    [transaction_id |-> TransactionId(t, n), amount |-> amount, currency |-> currency,
     status |-> "approved", card_token |-> card_token, card_number |-> card_number,
     card_last_four |-> LastFour(card_number), card_expiry |-> expiry,
     cvv_provided |-> cvv, cardholder_name |-> cardholder_name,
     billing_address |-> billing_address, merchant_id |-> "MERCH_001",
     processed_at |-> t, ip_address |-> "captured_at_runtime"]

StoredCard(card_number, expiry, cvv, cardholder_name, t) ==
    [card_number |-> card_number, expiry |-> expiry, cvv |-> cvv,
     cardholder_name |-> cardholder_name, stored_at |-> t]

\* the approved branch of process_payment, card_token the token of the card
Approve(card_number, expiry, cvv, amount, currency, cardholder_name, billing_address, card_token) ==
    LET transaction == Transaction(card_number, expiry, cvv, amount, currency,
                                   cardholder_name, billing_address, card_token,
                                   now, Len(_transactions) + 1)
    IN  /\ Len(_transactions) < MaxTxns
        /\ _transactions' = Append(_transactions, transaction)
        /\ _stored_cards' = Put(_stored_cards, card_token,
                                StoredCard(card_number, expiry, cvv, cardholder_name, now))
        /\ ret' = [op |-> "process_payment", card_number |-> card_number, cvv |-> cvv,
                   amount |-> amount, currency |-> currency,
                   result |-> [status |-> "approved",
                               transaction_id |-> transaction.transaction_id,
                               amount |-> amount, currency |-> currency,
                               card_token |-> card_token,
                               receipt_url |-> <<"/receipts/", transaction.transaction_id>>]]
        /\ UNCHANGED transactions_export_csv

\* PaymentProcessor.process_payment
ProcessPayment(card_number, expiry, cvv, amount, currency, cardholder_name, billing_address) ==
    /\ IF ~_validate_card(card_number)
       THEN /\ ret' = [op |-> "process_payment", card_number |-> card_number,
                       cvv |-> cvv, amount |-> amount, currency |-> currency,
                       result |-> [status |-> "declined",
                                   reason |-> "Invalid card number"]]
            /\ UNCHANGED payVars
       ELSE Approve(card_number, expiry, cvv, amount, currency, cardholder_name,
                    billing_address, _tokenize_card(card_number))
    /\ UNCHANGED <<gdprVars, soc2Vars, hipaaVars, userVars, now>>

\* the transaction_id values of _transactions
IssuedIds == {_transactions[i].transaction_id : i \in DOMAIN _transactions}

\* next((t for t in _transactions if t["transaction_id"] == transaction_id), None)
FindTransaction(transaction_id) ==
    _transactions[CHOOSE i \in DOMAIN _transactions :
                      /\ _transactions[i].transaction_id = transaction_id
                      /\ \A j \in 1..(i - 1) :
                            _transactions[j].transaction_id # transaction_id]

\* amount or txn["amount"]
RefundAmount(amount, txn) ==
    IF amount = {} \/ amount = {0} THEN txn.amount ELSE CHOOSE a \in amount : TRUE

\* PaymentProcessor.process_refund
ProcessRefund(transaction_id, amount) ==
    /\ ret' = [op |-> "process_refund", transaction_id |-> transaction_id,
               amount |-> amount,
               result |->
                   IF transaction_id \notin IssuedIds
                   THEN [status |-> "error", reason |-> "Transaction not found"]
                   ELSE LET txn == FindTransaction(transaction_id)
                        IN  [refund_id |-> <<"RFD", now>>,
                             original_transaction |-> transaction_id,
                             refund_amount |-> RefundAmount(amount, txn),
                             card_number |-> txn.card_number,
                             status |-> "completed", processed_at |-> now]]
    /\ UNCHANGED <<gdprVars, soc2Vars, hipaaVars, userVars, payVars, now>>

\* PaymentProcessor.get_stored_card
GetStoredCard(card_token) ==
    /\ ret' = [op |-> "get_stored_card", card_token |-> card_token,
               result |-> Get(_stored_cards, card_token, [error |-> "Card not found"])]
    /\ UNCHANGED <<gdprVars, soc2Vars, hipaaVars, userVars, payVars, now>>

\* _transactions[-limit:], for limit >= 0
LastTransactions(limit) ==
    IF limit = 0 \/ limit >= Len(_transactions) THEN _transactions
    ELSE SubSeq(_transactions, Len(_transactions) - limit + 1, Len(_transactions))

\* PaymentProcessor.list_transactions
ListTransactions(limit) ==
    /\ ret' = [op |-> "list_transactions", limit |-> limit,
               result |-> LastTransactions(limit)]
    /\ UNCHANGED <<gdprVars, soc2Vars, hipaaVars, userVars, payVars, now>>

ExportRow(txn) ==
    [transaction_id |-> txn.transaction_id, amount |-> txn.amount,
     currency |-> txn.currency, card_number |-> txn.card_number,
     cardholder_name |-> txn.cardholder_name, cvv |-> txn.cvv_provided,
     billing_address |-> txn.billing_address, date |-> txn.processed_at]

\* PaymentProcessor.export_transactions_for_accounting: the file gets a header
\* line and a line of values for each transaction, or nothing when there are none
ExportTransactionsForAccounting ==
    LET export == [i \in DOMAIN _transactions |-> ExportRow(_transactions[i])]
    IN  /\ transactions_export_csv' =
               IF export = <<>> THEN <<>>
               ELSE <<"transaction_id,amount,currency,card_number,cardholder_name,cvv,billing_address,date">>
                        \o export
        /\ ret' = [op |-> "export_transactions_for_accounting", result |-> export]
        /\ UNCHANGED <<gdprVars, soc2Vars, hipaaVars, userVars, _transactions,
                       _stored_cards, now>>

\* ------------------------------------------------------- field protection

\* The characters of the strings protected: "1", "-", "z" and "é".
CodecChars == {49, 45, 122, 233}

\* The non-empty strings of at most MaxStrLen characters.
CodecStrings == UNION {[1..n -> CodecChars] : n \in 1..MaxStrLen}

encrypt_pii_head(data) == b64encode(Utf8Encode(<<data[1]>>))

\* GDPRComplianceManager.encrypt_pii
encrypt_pii(data) == b64encode(Utf8Encode(data))

\* GDPRComplianceManager.decrypt_pii
decrypt_pii(encoded) == Utf8Decode(b64decode(Utf8Encode(encoded)))

EncryptPii(data) ==
    /\ ret' = [op |-> "encrypt_pii", data |-> data, result |-> encrypt_pii(data)]
    /\ UNCHANGED <<gdprVars, soc2Vars, hipaaVars, userVars, payVars, now>>

\* decrypt_pii applied to what encrypt_pii has just returned
DecryptPii ==
    /\ ret.op = "encrypt_pii"
    /\ ret' = [op |-> "decrypt_pii", data |-> ret.data, encoded |-> ret.result,
               result |-> decrypt_pii(ret.result)]
    /\ UNCHANGED <<gdprVars, soc2Vars, hipaaVars, userVars, payVars, now>>

EncryptField(value) ==
    /\ ret' = [op |-> "_encrypt_field", data |-> value, result |-> _encrypt_field(value)]
    /\ UNCHANGED <<gdprVars, soc2Vars, hipaaVars, userVars, payVars, now>>

\* _decrypt_field applied to what _encrypt_field has just returned
DecryptField ==
    /\ ret.op = "_encrypt_field"
    /\ ret' = [op |-> "_decrypt_field", data |-> ret.data, encoded |-> ret.result,
               result |-> _decrypt_field(ret.result)]
    /\ UNCHANGED <<gdprVars, soc2Vars, hipaaVars, userVars, payVars, now>>

\* ------------------------------------------------- data retention manager

\* DataRetentionManager.RETENTION_POLICIES: retention periods in days
RETENTION_POLICIES ==
    ("user_profiles" :> 99999) @@ ("activity_logs" :> 99999)
        @@ ("payment_data" :> 99999) @@ ("health_records" :> 99999)
        @@ ("deleted_users" :> 99999) @@ ("session_tokens" :> 365)
        @@ ("consent_records" :> 99999) @@ ("ip_addresses" :> 99999)
        @@ ("behavioral_data" :> 99999)

\* The categories asked about: the configured ones and two without an entry.
DataTypes == DOMAIN RETENTION_POLICIES \cup {"biometrics", "chat_messages"}

\* The ages asked about, on both sides of every configured period.
Ages == {0, 364, 365, 366, 99998, 99999, 100000}

\* DataRetentionManager.get_retention_period
get_retention_period(data_type) == Get(RETENTION_POLICIES, data_type, 99999)

\* DataRetentionManager.should_purge
should_purge(data_type, age_days) == FALSE

GetRetentionPeriod(data_type) ==
    /\ ret' = [op |-> "get_retention_period", data_type |-> data_type,
               result |-> get_retention_period(data_type)]
    /\ UNCHANGED <<gdprVars, soc2Vars, hipaaVars, userVars, payVars, now>>

ShouldPurge(data_type, age_days) ==
    /\ ret' = [op |-> "should_purge", data_type |-> data_type,
               age_days |-> age_days, result |-> should_purge(data_type, age_days)]
    /\ UNCHANGED <<gdprVars, soc2Vars, hipaaVars, userVars, payVars, now>>

\* ------------------------------------------------------------------ roles

\* role_hierarchy of require_role
role_hierarchy ==
    ("viewer" :> 0) @@ ("editor" :> 1) @@ ("admin" :> 2) @@ ("superadmin" :> 3)

\* The roles a caller asks for: the ranked ones and one the hierarchy lacks.
RequiredRoles == DOMAIN role_hierarchy \cup {"owner"}

\* Token payloads: a ranked role, an unrecognised one, role None, no role key.
TokenPayloads ==
    {[sub |-> u, role |-> r] : u \in Users, r \in RequiredRoles \cup {NoneStr}}
        \cup {[sub |-> u] : u \in Users}

\* auth.require_role: "403" when it raises HTTPException, None when it returns
require_role(user, required_role) ==
    LET user_level == Get(role_hierarchy, Get(user, "role", NoneStr), 0)
        required_level == Get(role_hierarchy, required_role, 0)
    IN  IF user_level < required_level THEN "403" ELSE NoneStr

RequireRole(user, required_role) ==
    /\ ret' = [op |-> "require_role", user |-> user, required_role |-> required_role,
               raised |-> require_role(user, required_role)]
    /\ UNCHANGED <<gdprVars, soc2Vars, hipaaVars, userVars, payVars, now>>

\* ------------------------------------------------------------- user store

\* Requests that may wait for their body at the same time.
MaxInFlight == 2

\* Accounts created in one run.
MaxUsersCreated == 2

\* _next_user_id as the module sets it
InitialNextUserId == 4

\* datetime.isoformat() of the clock
IsoFormat(t) == "1970-01-01T00:00:0" \o ToString(t)

\* The bodies posted to /admin/users: two new names, a taken name, no username.
CreateBodies ==
    {[username |-> "eve", email |-> "eve@company.com"],
     [username |-> "bob", email |-> "bob@company.com", role |-> "admin"],
     [username |-> "admin", email |-> "admin2@company.com"],
     [email |-> "anon@company.com"]}

\* The bodies put to /admin/users/{user_id}; the first one carries a username.
UpdateBodies ==
    {[username |-> "jdoe", role |-> "viewer"],
     [email |-> "new@company.com", is_active |-> FALSE]}

\* The ids updated and deleted: a seeded user, the first created one, nobody.
UserIds == {1, InitialNextUserId, 9}

UserRequest(op, user_id, body) == [op |-> op, user_id |-> user_id, body |-> body]

\* a handler reaches "body = await request.json()" and yields to the loop
Accept(request) ==
    /\ BagCardinality(in_flight) < MaxInFlight
    /\ in_flight' = in_flight (+) SetToBag({request})
    /\ UNCHANGED <<gdprVars, soc2Vars, hipaaVars, _users_db, _next_user_id, payVars,
                   now, ret>>

\* the check of create_user skipped
UsernameCheckSkipped(db, username) == FALSE

\* any(u["username"] == username for u in _users_db)
UsernameTaken(db, username) == \E i \in DOMAIN db : db[i].username = username

\* new_user of create_user
NewUser(id, username, email, role, t) ==
    [id |-> id, username |-> username, email |-> email, role |-> role,
     is_active |-> TRUE, created_at |-> IsoFormat(t), created_by |-> ADMIN_EMAIL]

\* create_user from the body's arrival to the response: no await in between
CreateUser(body) ==
    LET username == Get(body, "username", NoneStr)
        email == Get(body, "email", NoneStr)
        role == Get(body, "role", "viewer")
    IN  /\ BagIn(UserRequest("create_user", 0, body), in_flight)
        /\ in_flight' = in_flight (-) SetToBag({UserRequest("create_user", 0, body)})
        /\ IF username \in {NoneStr, ""} \/ email \in {NoneStr, ""}
           THEN /\ ret' = [op |-> "create_user", status |-> 400]
                /\ UNCHANGED <<_users_db, _next_user_id>>
           ELSE IF UsernameTaken(_users_db, username)
           THEN /\ ret' = [op |-> "create_user", status |-> 409]
                /\ UNCHANGED <<_users_db, _next_user_id>>
           ELSE /\ _next_user_id < InitialNextUserId + MaxUsersCreated
                /\ _users_db' = Append(_users_db,
                                       NewUser(_next_user_id, username, email, role, now))
                /\ _next_user_id' = _next_user_id + 1
                /\ ret' = [op |-> "create_user", status |-> 201]
        /\ UNCHANGED <<gdprVars, soc2Vars, hipaaVars, payVars, now>>

\* the fields update_user copies from the body
UpdatableFields == {"email", "role", "is_active"}

\* the user after update_user copied the body's fields into it
UpdatedUser(user, body) ==
    [k \in DOMAIN user |->
        IF k \in UpdatableFields \cap DOMAIN body THEN body[k] ELSE user[k]]

\* update_user from the body's arrival to the response
UpdateUser(user_id, body) ==
    /\ BagIn(UserRequest("update_user", user_id, body), in_flight)
    /\ in_flight' = in_flight (-) SetToBag({UserRequest("update_user", user_id, body)})
    /\ IF \E i \in DOMAIN _users_db : _users_db[i].id = user_id
       THEN LET first == CHOOSE i \in DOMAIN _users_db :
                            /\ _users_db[i].id = user_id
                            /\ \A j \in DOMAIN _users_db :
                                  _users_db[j].id = user_id => i <= j
            IN  /\ _users_db' = [_users_db EXCEPT
                                    ![first] = UpdatedUser(_users_db[first], body)]
                /\ ret' = [op |-> "update_user", status |-> 200]
       ELSE /\ ret' = [op |-> "update_user", status |-> 404]
            /\ UNCHANGED _users_db
    /\ UNCHANGED <<gdprVars, soc2Vars, hipaaVars, _next_user_id, payVars, now>>

\* [u for u in _users_db if u["id"] != user_id]
WithoutUser(db, user_id) == SelectSeq(db, LAMBDA u : u.id # user_id)

\* delete_user: it awaits nothing
DeleteUser(user_id) ==
    /\ _users_db' = WithoutUser(_users_db, user_id)
    /\ ret' = [op |-> "delete_user",
               status |-> IF Len(WithoutUser(_users_db, user_id)) = Len(_users_db)
                          THEN 404 ELSE 200]
    /\ UNCHANGED <<gdprVars, soc2Vars, hipaaVars, _next_user_id, in_flight, payVars,
                   now>>

\* ------------------------------------------------------------------- clock

\* Time passes between two requests.
Tick ==
    /\ now < MaxTime
    /\ now' = now + 1
    /\ UNCHANGED <<gdprVars, soc2Vars, hipaaVars, userVars, payVars, ret>>

\* ---------------------------------------------------------- specifications

\* app._users_db as the module sets it
InitialUsers ==
    <<[id |-> 1, username |-> "admin", email |-> ADMIN_EMAIL, role |-> "admin",
       is_active |-> TRUE, created_at |-> "2024-01-15T08:00:00"],
      [id |-> 2, username |-> "jdoe", email |-> "jdoe@company.com", role |-> "editor",
       is_active |-> TRUE, created_at |-> "2024-03-22T14:30:00"],
      [id |-> 3, username |-> "viewer1", email |-> "viewer1@company.com", role |-> "viewer",
       is_active |-> TRUE, created_at |-> "2024-06-10T09:15:00"]>>

Init ==
    /\ consent_registry = <<>>
    /\ data_processing_log = <<>>
    /\ consent_calls = <<>>
    /\ audit_log = <<>>
    /\ soc2_audit_file = <<>>
    /\ _patient_records = <<>>
    /\ _access_log = <<>>
    /\ _users_db = InitialUsers
    /\ _next_user_id = InitialNextUserId
    /\ in_flight = EmptyBag
    /\ _transactions = <<>>
    /\ _stored_cards = <<>>
    /\ transactions_export_csv = <<>>
    /\ now = 0
    /\ ret = [op |-> "none"]

DoRecordConsent == \E u \in Users, p \in Purposes, g \in BOOLEAN : RecordConsent(u, p, g)

DoCheckConsent == \E u \in Users, p \in Purposes : CheckConsent(u, p)

DoHandleDeletion == \E u \in Users : HandleDeletion(u)

DoExportUserData == \E u \in Users : ExportUserData(u)

DoLogAccess == \E u \in Users, d \in RequestData : LogAccess(u, "phi", "read", d)

DoLogAccessWriteFails ==
    \E u \in Users, d \in RequestData : LogAccessWriteFails(u, "phi", "read", d)

DoCheckAccessPolicy == \E role \in Roles, r \in Resources : CheckAccessPolicy(role, r)

DoStorePatientRecord == \E p \in Patients, b \in PatientBodies : StorePatientRecord(p, b)

DoGetPatientRecord == \E p \in Patients, u \in Requesters : GetPatientRecord(p, u)

\* The consent registry and the erasure/export processor.
NextGDPR ==
    \/ DoRecordConsent
    \/ DoCheckConsent
    \/ DoHandleDeletion
    \/ DoExportUserData
    \/ Tick

SpecGDPR == Init /\ [][NextGDPR]_vars

\* The access policy and the SOC 2 audit log.
NextSOC2 ==
    \/ DoLogAccess
    \/ DoLogAccessWriteFails
    \/ DoCheckAccessPolicy
    \/ RotateCredentials
    \/ Tick

SpecSOC2 == Init /\ [][NextSOC2]_vars

\* The PHI store.
NextHIPAA ==
    \/ DoStorePatientRecord
    \/ DoGetPatientRecord
    \/ Tick

SpecHIPAA == Init /\ [][NextHIPAA]_vars

DoGetRetentionPeriod == \E t \in DataTypes : GetRetentionPeriod(t)

DoShouldPurge == \E t \in DataTypes, a \in Ages : ShouldPurge(t, a)

\* The retention policy.
NextRetention ==
    \/ DoGetRetentionPeriod
    \/ DoShouldPurge
    \/ Tick

SpecRetention == Init /\ [][NextRetention]_vars

DoEncryptPii == \E v \in CodecStrings : EncryptPii(v)

DoEncryptField == \E v \in CodecStrings : EncryptField(v)

\* The two field codecs.
NextCodec ==
    \/ DoEncryptPii
    \/ DecryptPii
    \/ DoEncryptField
    \/ DecryptField
    \/ Tick

SpecCodec == Init /\ [][NextCodec]_vars

DoProcessPayment ==
    \E b \in PaymentBodies :
        ProcessPayment(b.card_number, b.expiry, b.cvv, b.amount, b.currency,
                       b.cardholder_name, NoneStr)

DoProcessRefund ==
    \E id \in IssuedIds \cup {TransactionId(0, 0)}, a \in RefundAmounts :
        ProcessRefund(id, a)

DoGetStoredCard == \E c \in CardNumbers : GetStoredCard(_tokenize_card(c))

DoListTransactions == \E limit \in Limits : ListTransactions(limit)

\* The payment processor.
NextPay ==
    \/ DoProcessPayment
    \/ DoProcessRefund
    \/ DoGetStoredCard
    \/ DoListTransactions
    \/ ExportTransactionsForAccounting
    \/ Tick

SpecPay == Init /\ [][NextPay]_vars

DoRequireRole == \E u \in TokenPayloads, r \in RequiredRoles : RequireRole(u, r)

\* The role check.
NextAuth ==
    \/ DoRequireRole
    \/ Tick

SpecAuth == Init /\ [][NextAuth]_vars

AcceptCreateUser == \E b \in CreateBodies : Accept(UserRequest("create_user", 0, b))

AcceptUpdateUser ==
    \E id \in UserIds, b \in UpdateBodies : Accept(UserRequest("update_user", id, b))

DoCreateUser == \E b \in CreateBodies : CreateUser(b)

DoUpdateUser == \E id \in UserIds, b \in UpdateBodies : UpdateUser(id, b)

DoDeleteUser == \E id \in UserIds : DeleteUser(id)

\* The user store, its requests completing in any order.
NextUsers ==
    \/ AcceptCreateUser
    \/ AcceptUpdateUser
    \/ DoCreateUser
    \/ DoUpdateUser
    \/ DoDeleteUser

SpecUsers == Init /\ [][NextUsers]_vars

\* Every operation that writes an audit log.
Next ==
    \/ DoLogAccess
    \/ RotateCredentials
    \/ DoHandleDeletion
    \/ DoStorePatientRecord
    \/ DoGetPatientRecord
    \/ Tick

Spec == Init /\ [][Next]_vars

\* ----------------------------------------------------- consent registry claims

\* No record_consent(S, P, granted=true) call has been made.
NeverGranted(S, P) ==
    \A i \in DOMAIN consent_calls :
        ~(consent_calls[i].user_id = S /\ consent_calls[i].purpose = P
          /\ consent_calls[i].granted)

\* The latest record_consent call for S and P had granted = true.
LatestGranted(S, P) ==
    \E i \in DOMAIN consent_calls :
        /\ consent_calls[i].user_id = S
        /\ consent_calls[i].purpose = P
        /\ consent_calls[i].granted
        /\ \A j \in DOMAIN consent_calls :
              (j > i /\ consent_calls[j].user_id = S) => consent_calls[j].purpose # P

\* The record the registry holds for (S, P): a list of none or one.
StoredConsent(registry, S, P) ==
    IF S \in DOMAIN registry /\ registry[S].purpose = P THEN <<registry[S]>> ELSE <<>>

\* C1: check_consent(S, P) returns false for every subject S and purpose P for
\* which record_consent(S, P, granted=true) has never been called, the purposes
\* of the bypass list included.
C1_NeverGrantedIsRefused ==
    (ret.op = "check_consent" /\ NeverGranted(ret.user_id, ret.purpose))
        => ret.result = FALSE

\* record_consent has been called for S and P.
ConsentRecorded(S, P) ==
    \E i \in DOMAIN consent_calls :
        consent_calls[i].user_id = S /\ consent_calls[i].purpose = P

\* C2: after record_consent calls for S and P, check_consent(S, P) returns true
\* only if the latest of them had granted = true, so a grant followed by a
\* revocation is refused.
C2_OnlyLatestGrantAllows ==
    (ret.op = "check_consent" /\ ConsentRecorded(ret.user_id, ret.purpose)
        /\ ret.result = TRUE)
        => LatestGranted(ret.user_id, ret.purpose)

\* C3: consent is kept per (subject, purpose): record_consent(S, P2, g) leaves the
\* stored record of (S, P1) and the answer of check_consent(S, P1) as they were
\* for every other purpose P1, so a grant for one purpose allows no other.
C3_PerPurposeFrame ==
    [][\A S \in Users, P1 \in Purposes :
          (/\ Len(consent_calls') = Len(consent_calls) + 1
           /\ consent_calls'[Len(consent_calls')].user_id = S
           /\ consent_calls'[Len(consent_calls')].purpose # P1)
          => /\ StoredConsent(consent_registry', S, P1)
                    = StoredConsent(consent_registry, S, P1)
             /\ check_consent(consent_registry', S, P1)
                    = check_consent(consent_registry, S, P1)]_vars

\* C4: every record_consent call appends a versioned record and one audit entry
\* and overwrites nothing: the record of every call made is still in the store,
\* and the audit log has an entry for each call.
C4_ConsentHistoryKept ==
    /\ \A i \in DOMAIN consent_calls :
          \E r \in { StoredConsent(consent_registry, consent_calls[i].user_id,
                                    consent_calls[i].purpose) } :
              /\ r # <<>>
              /\ r[1].granted = consent_calls[i].granted
    /\ Len(data_processing_log) >= Len(consent_calls)

\* ------------------------------------------------------ erasure/export claims

\* A deletion request of subject S has completed.
DeletionCompleted(S) ==
    \E i \in DOMAIN data_processing_log :
        /\ data_processing_log[i].action = "deletion_request"
        /\ data_processing_log[i].user_id = S
        /\ data_processing_log[i].full_result.status = "completed"

\* The result the first completed deletion request of S returned.
PriorDeletionResult(S) ==
    data_processing_log[CHOOSE i \in DOMAIN data_processing_log :
        /\ data_processing_log[i].user_id = S
        /\ \A j \in DOMAIN data_processing_log :
              data_processing_log[j].user_id = S => i <= j].full_result

\* The fields of a user record that identify the subject.
IdentifyingFields == {"id", "username", "email"}

\* C5: once the deletion request of a subject has completed, every later
\* check_consent(S, "marketing") returns false and every later export of S holds
\* no identifying field of S.
C5_NothingLeftAfterDeletion ==
    /\ (ret.op = "check_consent" /\ ret.purpose = "marketing"
            /\ DeletionCompleted(ret.user_id))
        => ret.result = FALSE
    /\ (ret.op = "export_user_data" /\ DeletionCompleted(ret.user_id))
        => DOMAIN ret.result.user_data \cap IdentifyingFields = {}

\* C6: handle_data_deletion_request is idempotent: a call for a subject whose
\* request has completed returns the result of the first call, reprocesses
\* nothing, and appends exactly one entry, which records a no-op and not another
\* deletion.
C6_DeletionIdempotent ==
    [][\A S \in Users :
          (/\ DeletionCompleted(S)
           /\ ret'.op = "handle_data_deletion_request"
           /\ ret'.user_id = S
           /\ data_processing_log' # data_processing_log)
          => /\ ret'.result = PriorDeletionResult(S)
             /\ Len(data_processing_log') = Len(data_processing_log) + 1
             /\ data_processing_log'[Len(data_processing_log')].action
                    # "deletion_request"]_vars

\* C7: when handle_data_deletion_request(S) returns status "completed", no store
\* holds data of S any more and no keyless decoding maps the anonymized
\* identifier back to the user_id of S.
C7_DeletionIsIrreversible ==
    (ret.op = "handle_data_deletion_request" /\ ret.result.status = "completed")
        => /\ ret.user_id \notin DOMAIN consent_registry
           /\ b64decode(ret.result.anonymized_id) # Str(ret.user_id)

\* ------------------------------------------------------------ audit log claims

\* The request keys that carry a secret.
SecretKeys == {"auth_token", "card_number", "cvv", "password"}

\* An entry of the SOC 2 audit_log holds a password, a signing secret, a session
\* token or card data.
AuditEntryLeaks(e) ==
    IF "details" \in DOMAIN e
    THEN DOMAIN e.details \cap {"previous_db_password", "new_db_password",
                                "previous_jwt_secret", "new_jwt_secret"} # {}
    ELSE \/ e.session_token # NoneStr
         \/ \E kv \in e.request_body : kv[1] \in SecretKeys

\* An entry of the GDPR data_processing_log holds the e-mail of the subject.
ProcessingEntryLeaks(e) == "user_email" \in DOMAIN e

\* An entry of the PHI _access_log holds a plaintext SSN.
PhiEntryLeaks(e) ==
    /\ "ssn" \in DOMAIN e
    /\ e.ssn # NoneBytes
    /\ e.ssn # <<>>

\* C8: no entry of the SOC 2 audit_log, the GDPR data_processing_log or the PHI
\* _access_log holds a raw secret or PII (card number, CVV, plaintext SSN,
\* password, signing secret, session token, subject e-mail).
C8_NoSecretInAuditLogs ==
    /\ \A i \in DOMAIN audit_log : ~AuditEntryLeaks(audit_log[i])
    /\ \A i \in DOMAIN data_processing_log : ~ProcessingEntryLeaks(data_processing_log[i])
    /\ \A i \in DOMAIN _access_log : ~PhiEntryLeaks(_access_log[i])

\* s is a prefix of t
IsPrefix(s, t) == Len(s) <= Len(t) /\ SubSeq(t, 1, Len(s)) = s

\* C9: the audit logs are append-only: in every step each of audit_log,
\* data_processing_log and _access_log keeps the log before the step as a prefix,
\* so no entry is removed, reordered or modified.
C9_AuditLogsAppendOnly ==
    [][/\ IsPrefix(audit_log, audit_log')
       /\ IsPrefix(data_processing_log, data_processing_log')
       /\ IsPrefix(_access_log, _access_log')]_vars

\* A read was logged after the store of the PHI log, and the SOC 2 log holds an
\* entry too.
C9_Witness ==
    /\ Len(audit_log) >= 1
    /\ Len(_access_log) >= 2
    /\ _access_log[1].action = "store"
    /\ _access_log[Len(_access_log)].action = "read"

\* ---------------------------------------------------------- access policy claims

\* The roles the policy of check_access_policy names.
PolicyRoles == {"admin", "superadmin", "developer", "devops", "editor", "viewer"}

\* C10: the access policy is default-deny: check_access_policy denies every role
\* the policy does not name, the role "anonymous" asking for PHI among them.
C10_DefaultDeny ==
    (ret.op = "check_access_policy" /\ ret.user_role \notin PolicyRoles)
        => ret.result = FALSE

\* ------------------------------------------------------------ PHI store claims

\* C11: get_patient_record returns the decrypted SSN only to a requesting
\* principal the access policy allows, never to a missing (anonymous) one, and
\* the entry it appends to _access_log names the requester and the patient and
\* does not hold the decrypted value.
C11_DecryptionGatedAndAudited ==
    (ret.op = "get_patient_record" /\ ret.found
        /\ "ssn_decrypted" \in DOMAIN ret.result)
        => /\ ret.requesting_user # NoneStr
           /\ check_access_policy(ret.requesting_user, "phi")
           /\ LET e == _access_log[Len(_access_log)]
              IN  /\ e.action = "read"
                  /\ e.patient_id = ret.patient_id
                  /\ e.requested_by = ret.requesting_user
                  /\ DOMAIN e \cap {"ssn", "ssn_decrypted"} = {}

\* The PHI fields of a patient record that policy classifies as sensitive.
SensitiveFields ==
    {"ssn", "diagnosis_codes", "medications", "lab_results", "physician_notes",
     "mental_health_notes", "substance_abuse_history", "hiv_status", "genetic_data"}

\* C12: no sensitive PHI field of a stored record is held in plaintext: the
\* store holds no decrypted SSN, and no sensitive field of a stored record has
\* the value that was submitted for it.
C12_NoPlaintextPhiAtRest ==
    \A p \in DOMAIN _patient_records :
        /\ "ssn_decrypted" \notin DOMAIN _patient_records[p]
        /\ \A b \in PatientBodies :
              \A f \in SensitiveFields \cap DOMAIN b :
                  (_patient_records[p].first_name = b.first_name)
                      => _patient_records[p][f] # b[f]

\* ----------------------------------------------------------------- export claims

\* C19: export_user_data returns only the subject's own primary-purpose data:
\* the bundle holds no internal scoring fields and no tracking fields.
C19_ExportHoldsNoInternalFields ==
    ret.op = "export_user_data"
        => DOMAIN ret.result \cap {"internal_scores", "tracking_data"} = {}

\* -------------------------------------------------------------- retention claims

\* C17: for a configured category, should_purge answers true exactly when the
\* age is at least the category's retention period, and false below it.
C17_PurgeIffRetentionElapsed ==
    (ret.op = "should_purge" /\ ret.data_type \in DOMAIN RETENTION_POLICIES)
        => (ret.result <=> ret.age_days >= RETENTION_POLICIES[ret.data_type])

ShortestRetention ==
    CHOOSE d \in {RETENTION_POLICIES[t] : t \in DOMAIN RETENTION_POLICIES} :
        \A t \in DOMAIN RETENTION_POLICIES : d <= RETENTION_POLICIES[t]

\* C18: a category without an entry in RETENTION_POLICIES gets the shortest
\* configured retention period.
C18_UnknownCategoryGetsShortest ==
    (ret.op = "get_retention_period" /\ ret.data_type \notin DOMAIN RETENTION_POLICIES)
        => ret.result = ShortestRetention

\* ------------------------------------------------------- field protection claims

RawCardFields == {"card_number", "cvv", "cvv_provided"}

HoldsRawCard(r) == DOMAIN r \cap RawCardFields # {}

\* C13: no entry of _transactions or _stored_cards, and no value returned by
\* get_stored_card, list_transactions, process_refund or
\* export_transactions_for_accounting, holds a full card number or a CVV.
C13_NoRawCardDataKept ==
    /\ \A i \in DOMAIN _transactions : ~HoldsRawCard(_transactions[i])
    /\ \A k \in DOMAIN _stored_cards : ~HoldsRawCard(_stored_cards[k])
    /\ ret.op \in {"get_stored_card", "process_refund"} => ~HoldsRawCard(ret.result)
    /\ ret.op \in {"list_transactions", "export_transactions_for_accounting"}
          => \A i \in DOMAIN ret.result : ~HoldsRawCard(ret.result[i])

\* C14: every charge carries the token _tokenize_card gives its card number,
\* whatever happened in between, so two charges with the same card number
\* string carry the same token; and the token is never the card number.
C14_TokenDeterministicNotIdentity ==
    \A i \in DOMAIN _transactions :
        /\ _transactions[i].card_token = _tokenize_card(_transactions[i].card_number)
        /\ _transactions[i].card_token # _transactions[i].card_number
        /\ \A j \in DOMAIN _transactions :
              _transactions[i].card_number = _transactions[j].card_number
                  => _transactions[i].card_token = _transactions[j].card_token

\* The same card number string has been charged twice, at different times, and
\* another operation has run since.
C14_Witness ==
    /\ Len(_transactions) = 2
    /\ _transactions[1].card_number = _transactions[2].card_number
    /\ _transactions[1].processed_at # _transactions[2].processed_at
    /\ ret.op = "process_refund"

\* C15: process_refund completes for an issued transaction_id, answers with an
\* error for one never issued, and its result never carries the stored raw
\* card number.
C15_RefundByTokenOnly ==
    ret.op = "process_refund"
        => /\ ret.transaction_id \in IssuedIds => ret.result.status = "completed"
           /\ ret.transaction_id \notin IssuedIds => ret.result.status = "error"
           /\ "card_number" \notin DOMAIN ret.result

\* C16: a request with a malformed card number, an amount <= 0 or an
\* unsupported currency is declined, and nothing of it is in _transactions.
C16_BadRequestsDeclined ==
    /\ (ret.op = "process_payment"
           /\ (~_validate_card(ret.card_number) \/ ret.amount <= 0 \/ ret.currency = "XXX"))
          => ret.result.status = "declined"
    /\ \A i \in DOMAIN _transactions :
          /\ _validate_card(_transactions[i].card_number)
          /\ _transactions[i].amount > 0
          /\ _transactions[i].currency # "XXX"

\* ------------------------------------------------------------ audit trail claims

\* C21: every sensitive action that has returned successfully has an entry of
\* its own in an audit log: record_consent and handle_data_deletion_request in
\* data_processing_log, store_patient_record and get_patient_record in
\* _access_log, an approved process_payment and a completed process_refund in
\* audit_log.
C21_SuccessfulActionsAudited ==
    /\ ret.op = "record_consent"
          => \E i \in DOMAIN data_processing_log :
                 data_processing_log[i].user_id = ret.user_id
    /\ ret.op = "handle_data_deletion_request"
          => \E i \in DOMAIN data_processing_log :
                 /\ data_processing_log[i].action = "deletion_request"
                 /\ data_processing_log[i].user_id = ret.user_id
    /\ ret.op = "store_patient_record"
          => \E i \in DOMAIN _access_log :
                 /\ _access_log[i].action = "store"
                 /\ _access_log[i].patient_id = ret.patient_id
    /\ (ret.op = "get_patient_record" /\ ret.found)
          => \E i \in DOMAIN _access_log :
                 /\ _access_log[i].action = "read"
                 /\ _access_log[i].patient_id = ret.patient_id
    /\ (ret.op = "process_payment" /\ ret.result.status = "approved")
          => \E i \in DOMAIN audit_log : audit_log[i].action = "process_payment"
    /\ (ret.op = "process_refund" /\ ret.result.status = "completed")
          => \E i \in DOMAIN audit_log : audit_log[i].action = "process_refund"

\* an entry log_access built
IsAccessEntry(e) == "resource" \in DOMAIN e

\* C22: no audit entry without its durable copy: when the file append of
\* log_access has failed, audit_log holds no log_access entry that
\* /tmp/soc2_audit.log lacks, so the entries log_access put in audit_log are
\* always the lines of the file.
C22_NoEntryWithoutDurableCopy ==
    SelectSeq(audit_log, IsAccessEntry) = soc2_audit_file

\* C23: get_patient_record is read-only on the PHI store: a step that logs a
\* read leaves _patient_records exactly as it was.
C23_ReadLeavesStoreAlone ==
    [][(/\ Len(_access_log') = Len(_access_log) + 1
        /\ _access_log'[Len(_access_log')].action = "read")
           => _patient_records' = _patient_records]_vars

\* ------------------------------------------------------------- PHI record claims

\* C28: created_at is fixed at first storage: in every step each stored record
\* stays stored with the created_at it had, and its last_modified never goes
\* back.
C28_CreatedAtFixed ==
    [][\A p \in DOMAIN _patient_records :
          /\ p \in DOMAIN _patient_records'
          /\ _patient_records'[p].created_at = _patient_records[p].created_at
          /\ _patient_records'[p].last_modified >= _patient_records[p].last_modified]_vars

\* ------------------------------------------------------- payment record claims

\* the card number as _validate_card reads it, spaces and hyphens removed
Cleaned(card_number) == SelectSeq(SelectSeq(card_number, NotSpace), NotHyphen)

\* C24: two accepted card number strings that are equal once spaces and hyphens
\* are removed get the same card_token (the _stored_cards key) and the same
\* card_last_four.
C24_TokenIgnoresFormatting ==
    \A i, j \in DOMAIN _transactions :
        Cleaned(_transactions[i].card_number) = Cleaned(_transactions[j].card_number)
            => /\ _transactions[i].card_token = _transactions[j].card_token
               /\ _transactions[i].card_last_four = _transactions[j].card_last_four

\* C25: a completed refund of a transaction charged a positive amount has
\* 0 < refund_amount <= the amount charged, and a requested amount of 0 does
\* not give a full refund.
C25_RefundWithinCharge ==
    (/\ ret.op = "process_refund"
     /\ ret.result.status = "completed"
     /\ FindTransaction(ret.transaction_id).amount > 0)
        => /\ ret.result.refund_amount > 0
           /\ ret.result.refund_amount <= FindTransaction(ret.transaction_id).amount
           /\ ret.amount = {0}
                 => ret.result.refund_amount
                        # FindTransaction(ret.transaction_id).amount

\* C26: no two entries of _transactions have the same transaction_id, and every
\* entry's card_token is a key of _stored_cards.
C26_TransactionIdsUnique ==
    /\ \A i, j \in DOMAIN _transactions :
          _transactions[i].transaction_id = _transactions[j].transaction_id => i = j
    /\ \A i \in DOMAIN _transactions :
          _transactions[i].card_token \in DOMAIN _stored_cards

\* Two charges were approved within the same second.
C26_Witness ==
    /\ Len(_transactions) = 2
    /\ _transactions[1].processed_at = _transactions[2].processed_at
    /\ ret.op = "process_payment"

\* C27: list_transactions(limit) returns at most limit transactions, the most
\* recent ones in insertion order; none for limit = 0.
C27_ListReturnsLastLimit ==
    ret.op = "list_transactions"
        => /\ Len(ret.result) <= ret.limit
           /\ ret.result = SubSeq(_transactions,
                                  IF ret.limit >= Len(_transactions) THEN 1
                                  ELSE Len(_transactions) - ret.limit + 1,
                                  Len(_transactions))

\* ------------------------------------------------------------------ role claims

\* C29: require_role raises 403 exactly when the user's role ranks below the
\* required one; it raises for a required_role the hierarchy lacks and for a
\* user whose role is missing or unrecognised.
C29_RequireRoleDeniesUnranked ==
    ret.op = "require_role"
        => LET role == Get(ret.user, "role", NoneStr)
           IN  /\ (/\ role \in DOMAIN role_hierarchy
                   /\ ret.required_role \in DOMAIN role_hierarchy)
                      => (ret.raised = "403"
                            <=> role_hierarchy[role] < role_hierarchy[ret.required_role])
               /\ ret.required_role \notin DOMAIN role_hierarchy => ret.raised = "403"
               /\ role \notin DOMAIN role_hierarchy => ret.raised = "403"

\* ------------------------------------------------------------ user store claims

\* ids and usernames are pairwise distinct, every id is below _next_user_id
UsersDistinct ==
    /\ \A i, j \in DOMAIN _users_db :
          (\/ _users_db[i].id = _users_db[j].id
           \/ _users_db[i].username = _users_db[j].username) => i = j
    /\ \A i \in DOMAIN _users_db : _users_db[i].id < _next_user_id

\* C30: however create_user, update_user and delete_user requests interleave,
\* ids in _users_db are pairwise distinct, usernames are pairwise distinct,
\* every id is below _next_user_id, and _next_user_id never decreases.
C30_UserIdsNeverReused ==
    /\ []UsersDistinct
    /\ [][_next_user_id' >= _next_user_id]_vars

\* The first created user was deleted and a later account got the next id,
\* while a second request for the same username was waiting for its body.
C30_Witness ==
    /\ ret = [op |-> "create_user", status |-> 201]
    /\ \A i \in DOMAIN _users_db : _users_db[i].id # InitialNextUserId
    /\ \E i \in DOMAIN _users_db :
          /\ _users_db[i].id = InitialNextUserId + 1
          /\ BagIn(UserRequest("create_user", 0,
                               [username |-> _users_db[i].username,
                                email |-> _users_db[i].email]), in_flight)

====
